---- MODULE Spec2Model ----
(***************************************************************************)
(* BatchWorkExecutor (blockchainetl/executors/batch_work_executor.py):     *)
(* the caller's thread forms batches and submits them to a fail-safe,      *)
(* bounded thread pool; worker threads run _fail_safe_execute on them.     *)
(*                                                                         *)
(* The work items are 1..nItems in source order, so a batch is the range   *)
(* lo .. lo+len-1.  The handler is an input: each of its invocations       *)
(* returns ("ok"), raises an error of retry_exceptions ("transient") or    *)
(* raises another error ("fatal").                                         *)
(*                                                                         *)
(* dynamic_batch_iterator, BoundedExecutor, FailSafeExecutor and           *)
(* ProgressLogger are imported by the file (lines 27-30) and their code is *)
(* not part of the sources at hand: they are modelled from the             *)
(* specification (sections 4.1, 4.2, 4.3 and 6).                           *)
(***************************************************************************)
EXTENDS Integers, Sequences, FiniteSets

\* ---------------------------------------------------------------- bounds
\* the runs of Spec: every source length, starting size, worker count and mode
MaxItems == 5
MaxBatch == 3
MaxWorkers == 2
MaxFailures == 2

\* the runs of SpecLong: a long source, two workers, more failing invocations
LongItems == 10
LongBatch == 3
LongFailures == 3

\* a pool built with a queue bound of 2
QueueBoundMut == 1 + 1

\* a pool built with a queue bound of -1: with one worker it has no slot
QueueBoundNeg == 0 - 1

\* BoundedExecutor(1, self.max_workers): the first argument, the queue bound
QueueBound == 1

VARIABLES
    nItems,              \* length of work_iterable
    batch_size,          \* self.batch_size
    max_workers,         \* self.max_workers
    exponential_backoff, \* self.exponential_backoff
    counter,             \* self.counter
    pos,                 \* number of items the batch iterator has consumed
    mainPc,              \* position of the caller's thread
    pending,             \* the batch the caller is submitting (len 0: none)
    tasks,               \* every batch handed to the pool, in submission order
    error,               \* Terminal Error State of the fail-safe wrapper
    progress,            \* ProgressLogger: items counted by track
    started,             \* ProgressLogger: number of start calls
    finished,            \* ProgressLogger: number of finish calls
    execResult,          \* how execute ended: "none", "returned", "raised"
    shutResult,          \* how shutdown ended: "none", "returned", "raised"
    raised,              \* the errors raised to the caller, in order
    dropped,             \* batches formed whose submit raised
    startSize,           \* starting_batch_size (history: the constructor argument)
    maxFail,             \* the handler's input: how many of its invocations may raise
    minWritten,          \* history: the least value written to batch_size (0: none)
    startedAfterError    \* history: a batch began processing after an error was latched

vars == <<nItems, batch_size, max_workers, exponential_backoff, counter, pos,
          mainPc, pending, tasks, error, progress, started, finished,
          execResult, shutResult, raised, dropped, startSize, maxFail,
          minWritten, startedAfterError>>

\* ---------------------------------------------------------------- helpers
NoBatch == [lo |-> 0, len |-> 0, sz |-> 0]

NoError == [kind |-> "none", from |-> "none", lo |-> 0]

Min(a, b) == IF a <= b THEN a ELSE b

TaskIds == 1..Len(tasks)

\* a task is in flight from submit until its future is done
InFlightPcs == {"queued", "handler", "read", "write", "retry", "track"}

RunningPcs == InFlightPcs \ {"queued"}

InFlight == {t \in TaskIds : tasks[t].pc \in InFlightPcs}

Running == {t \in TaskIds : tasks[t].pc \in RunningPcs}

Queued == {t \in TaskIds : tasks[t].pc = "queued"}

\* number of handler invocations that raised so far (bounded by maxFail)
RaisedIn(t) ==
    (IF tasks[t].outcome \in {"transient", "fatal"} THEN 1 ELSE 0)
  + (IF tasks[t].itemErr # "none" THEN 1 ELSE 0)

RECURSIVE SumRaised(_)
SumRaised(n) == IF n = 0 THEN 0 ELSE RaisedIn(n) + SumRaised(n - 1)

Failures == SumRaised(Len(tasks))

MayFail == Failures < maxFail

\* the items of a batch, in order
BatchItems(b) == [i \in 1..b.len |-> b.lo + i - 1]

\* ---------------------------------------------------------------- __init__
Init ==
    /\ startSize \in 1..MaxBatch
    /\ nItems \in 0..MaxItems
    /\ maxFail = MaxFailures
    /\ batch_size = startSize
    /\ max_workers \in 1..MaxWorkers
    /\ exponential_backoff \in BOOLEAN
    /\ counter = 0
    /\ pos = 0
    /\ mainPc = "new"
    /\ pending = NoBatch
    /\ tasks = <<>>
    /\ error = NoError
    /\ progress = 0
    /\ started = 0
    /\ finished = 0
    /\ execResult = "none"
    /\ shutResult = "none"
    /\ raised = <<>>
    /\ dropped = <<>>
    /\ minWritten = 0
    /\ startedAfterError = FALSE

\* __init__ for a long source: starting sizes LongBatch and LongBatch + 1
InitLong ==
    /\ startSize \in LongBatch..(LongBatch + 1)
    /\ nItems = LongItems
    /\ maxFail = LongFailures
    /\ batch_size = startSize
    /\ max_workers = MaxWorkers
    /\ exponential_backoff \in BOOLEAN
    /\ counter = 0
    /\ pos = 0
    /\ mainPc = "new"
    /\ pending = NoBatch
    /\ tasks = <<>>
    /\ error = NoError
    /\ progress = 0
    /\ started = 0
    /\ finished = 0
    /\ execResult = "none"
    /\ shutResult = "none"
    /\ raised = <<>>
    /\ dropped = <<>>
    /\ minWritten = 0
    /\ startedAfterError = FALSE

\* ---------------------------------------------------------------- collaborators
\* dynamic_batch_iterator: a batch holds the size read before it is formed,
\* or what is left of the source when that is less
NextBatchLen(size, remaining) == Min(size, remaining)

\* BoundedExecutor(bound, max_workers): admission slots of the pool
Slots == QueueBound + max_workers

\* FailSafeExecutor.submit: the stored error is raised instead of scheduling
SubmitRaises == error.kind # "none"

\* FailSafeExecutor.shutdown: the stored error is raised after the wait
ShutdownRaises == error.kind # "none"

\* BoundedExecutor.shutdown: every submitted task has completed
Drained == InFlight = {}

\* FailSafeExecutor: the first error a task raises is stored, and stays
Latch(kind, from, lo) ==
    IF error.kind = "none" THEN [kind |-> kind, from |-> from, lo |-> lo] ELSE error

\* ProgressLogger.track(item_count)
Tracked(count) == progress + count

\* ---------------------------------------------------------------- _fail_safe_execute
\* an except clause that matches no error
IsRetryExceptionMut(kind) == FALSE

\* an except clause that matches every error: except Exception
IsRetryExceptionAll(kind) == TRUE

\* except self.retry_exceptions as e
IsRetryException(kind) == kind = "transient"

\* no guard: the size is shrunk on every transient failure
ShrinkGuardAlways(bs, len) == TRUE

\* the guard without its floor: if batch_size == len(batch)
ShrinkGuardNoFloor(bs, len) == bs = len

\* the guard with >= for ==: if batch_size >= len(batch) and batch_size > 1
ShrinkGuardGe(bs, len) == bs >= len /\ bs > 1

\* if batch_size == len(batch) and batch_size > 1
ShrinkGuard(bs, len) == bs = len /\ bs > 1

\* int(batch_size / 2) or batch_size - 1
Shrunk(bs) == IF exponential_backoff THEN bs \div 2 ELSE bs - 1

NewTask(b) ==
    [lo |-> b.lo, len |-> b.len, sz |-> b.sz, pc |-> "queued", bs |-> 0,
     calls |-> 0, retried |-> <<>>, outcome |-> "none", itemErr |-> "none",
     tracked |-> 0]

Outcomes == {"ok", "transient", "fatal"}

\* ---------------------------------------------------------------- the caller's thread
\* execute, line 49: progress_logger.start
ExecuteCall ==
    /\ mainPc = "new"
    /\ started' = started + 1
    /\ mainPc' = "iter"
    /\ UNCHANGED <<maxFail, nItems, batch_size, max_workers, exponential_backoff, counter,
                   pos, pending, tasks, error, progress, finished, execResult,
                   shutResult, raised, dropped, startSize, minWritten,
                   startedAfterError>>

\* execute, line 50: the source is exhausted, the loop ends and execute returns
ExecuteReturn ==
    /\ mainPc = "iter"
    /\ pos = nItems
    /\ mainPc' = "executed"
    /\ execResult' = "returned"
    /\ UNCHANGED <<maxFail, nItems, batch_size, max_workers, exponential_backoff, counter,
                   pos, pending, tasks, error, progress, started, finished,
                   shutResult, raised, dropped, startSize, minWritten,
                   startedAfterError>>

\* execute, lines 50-51 with an iterator that keeps the size it was built with
NextBatchFixed ==
    /\ mainPc = "iter"
    /\ pos < nItems
    /\ LET n == NextBatchLen(startSize, nItems - pos)
           b == [lo |-> pos + 1, len |-> n, sz |-> startSize]
       IN  /\ pos' = pos + n
           /\ IF SubmitRaises
              THEN /\ mainPc' = "executed"
                   /\ execResult' = "raised"
                   /\ raised' = Append(raised, [by |-> "execute", kind |-> error.kind])
                   /\ dropped' = Append(dropped, b)
                   /\ pending' = pending
              ELSE /\ mainPc' = "acquire"
                   /\ pending' = b
                   /\ UNCHANGED <<execResult, raised, dropped>>
    /\ UNCHANGED <<maxFail, nItems, batch_size, max_workers, exponential_backoff, counter,
                   tasks, error, progress, started, finished, shutResult,
                   startSize, minWritten, startedAfterError>>

\* execute, lines 50-51: the iterator reads self.batch_size and forms the next
\* batch; submit re-raises the stored error, or goes on to wait for a slot
NextBatch ==
    /\ mainPc = "iter"
    /\ pos < nItems
    /\ LET n == NextBatchLen(batch_size, nItems - pos)
           b == [lo |-> pos + 1, len |-> n, sz |-> batch_size]
       IN  /\ pos' = pos + n
           /\ IF SubmitRaises
              THEN /\ mainPc' = "executed"
                   /\ execResult' = "raised"
                   /\ raised' = Append(raised, [by |-> "execute", kind |-> error.kind])
                   /\ dropped' = Append(dropped, b)
                   /\ pending' = pending
              ELSE /\ mainPc' = "acquire"
                   /\ pending' = b
                   /\ UNCHANGED <<execResult, raised, dropped>>
    /\ UNCHANGED <<maxFail, nItems, batch_size, max_workers, exponential_backoff, counter,
                   tasks, error, progress, started, finished, shutResult,
                   startSize, minWritten, startedAfterError>>

\* submit, in the bounded pool: blocks until a slot is free, then queues the task
Acquire ==
    /\ mainPc = "acquire"
    /\ Cardinality(InFlight) < Slots
    /\ tasks' = Append(tasks, NewTask(pending))
    /\ pending' = NoBatch
    /\ mainPc' = "iter"
    /\ UNCHANGED <<maxFail, nItems, batch_size, max_workers, exponential_backoff, counter,
                   pos, error, progress, started, finished, execResult,
                   shutResult, raised, dropped, startSize, minWritten,
                   startedAfterError>>

\* shutdown, line 77: the caller calls shutdown after execute ended
ShutdownCall ==
    /\ mainPc = "executed"
    /\ mainPc' = "shutdown"
    /\ UNCHANGED <<maxFail, nItems, batch_size, max_workers, exponential_backoff, counter,
                   pos, pending, tasks, error, progress, started, finished,
                   execResult, shutResult, raised, dropped, startSize, minWritten,
                   startedAfterError>>

\* shutdown, lines 77-78 with the error of executor.shutdown() caught:
\* shutdown returns and progress_logger.finish() is called
ShutdownWaitSwallow ==
    /\ mainPc = "shutdown"
    /\ Drained
    /\ mainPc' = "end"
    /\ shutResult' = "returned"
    /\ finished' = finished + 1
    /\ UNCHANGED <<maxFail, nItems, batch_size, max_workers, exponential_backoff, counter,
                   pos, pending, tasks, error, progress, started, execResult, raised,
                   dropped, startSize, minWritten, startedAfterError>>

\* shutdown, lines 77-78 with a shutdown that does not wait for the tasks
ShutdownWaitNoWait ==
    /\ mainPc = "shutdown"
    /\ mainPc' = "end"
    /\ IF ShutdownRaises
       THEN /\ shutResult' = "raised"
            /\ raised' = Append(raised, [by |-> "shutdown", kind |-> error.kind])
            /\ finished' = finished
       ELSE /\ shutResult' = "returned"
            /\ finished' = finished + 1
            /\ raised' = raised
    /\ UNCHANGED <<maxFail, nItems, batch_size, max_workers, exponential_backoff, counter,
                   pos, pending, tasks, error, progress, started, execResult,
                   dropped, startSize, minWritten, startedAfterError>>

\* shutdown, lines 77-78: executor.shutdown() waits for the outstanding tasks and
\* raises the stored error; progress_logger.finish() follows when it returned
ShutdownWait ==
    /\ mainPc = "shutdown"
    /\ Drained
    /\ mainPc' = "end"
    /\ IF ShutdownRaises
       THEN /\ shutResult' = "raised"
            /\ raised' = Append(raised, [by |-> "shutdown", kind |-> error.kind])
            /\ finished' = finished
       ELSE /\ shutResult' = "returned"
            /\ finished' = finished + 1
            /\ raised' = raised
    /\ UNCHANGED <<maxFail, nItems, batch_size, max_workers, exponential_backoff, counter,
                   pos, pending, tasks, error, progress, started, execResult,
                   dropped, startSize, minWritten, startedAfterError>>

\* ---------------------------------------------------------------- a worker thread
\* a free worker takes the oldest queued task; line 55: self.counter += 1
Start(t) ==
    /\ t \in Queued
    /\ \A u \in Queued : t <= u
    /\ Cardinality(Running) < max_workers
    /\ tasks' = [tasks EXCEPT ![t].pc = "handler"]
    /\ counter' = counter + 1
    /\ startedAfterError' = (startedAfterError \/ error.kind # "none")
    /\ UNCHANGED <<maxFail, nItems, batch_size, max_workers, exponential_backoff, pos,
                   mainPc, pending, error, progress, started, finished,
                   execResult, shutResult, raised, dropped, startSize, minWritten>>

\* lines 58-62 with a catch-all except clause: an error outside retry_exceptions
\* is swallowed and the task goes on to line 74
HandlerMut(t, out) ==
    /\ t \in TaskIds
    /\ tasks[t].pc = "handler"
    /\ out # "ok" => MayFail
    /\ tasks' = [tasks EXCEPT
                    ![t].calls = @ + 1,
                    ![t].outcome = out,
                    ![t].pc = IF out = "ok" THEN "track"
                              ELSE IF IsRetryException(out) THEN "read"
                              ELSE "track"]
    /\ counter' = counter - 1
    /\ UNCHANGED <<maxFail, nItems, batch_size, max_workers, exponential_backoff, pos,
                   mainPc, pending, error, progress, started, finished, execResult,
                   shutResult, raised, dropped, startSize, minWritten,
                   startedAfterError>>

\* lines 58-62: work_handler(batch) returns, raises one of retry_exceptions,
\* or raises another error, which leaves the task
Handler(t, out) ==
    /\ t \in TaskIds
    /\ tasks[t].pc = "handler"
    /\ out # "ok" => MayFail
    /\ tasks' = [tasks EXCEPT
                    ![t].calls = @ + 1,
                    ![t].outcome = out,
                    ![t].pc = IF out = "ok" THEN "track"
                              ELSE IF IsRetryException(out) THEN "read"
                              ELSE "failed"]
    /\ counter' = IF out = "ok" \/ IsRetryException(out) THEN counter - 1 ELSE counter
    /\ error' = IF out = "ok" \/ IsRetryException(out) THEN error
                ELSE Latch(out, "batch", tasks[t].lo)
    /\ UNCHANGED <<maxFail, nItems, batch_size, max_workers, exponential_backoff, pos,
                   mainPc, pending, progress, started, finished, execResult,
                   shutResult, raised, dropped, startSize, minWritten,
                   startedAfterError>>

\* line 64: batch_size = self.batch_size
ReadSize(t) ==
    /\ t \in TaskIds
    /\ tasks[t].pc = "read"
    /\ tasks' = [tasks EXCEPT ![t].bs = batch_size, ![t].pc = "write"]
    /\ UNCHANGED <<maxFail, nItems, batch_size, max_workers, exponential_backoff, counter,
                   pos, mainPc, pending, error, progress, started, finished,
                   execResult, shutResult, raised, dropped, startSize, minWritten,
                   startedAfterError>>

\* lines 66-70: the guard on the value read, and the write of the shrunk size
WriteSize(t) ==
    /\ t \in TaskIds
    /\ tasks[t].pc = "write"
    /\ IF ShrinkGuard(tasks[t].bs, tasks[t].len)
       THEN /\ batch_size' = Shrunk(tasks[t].bs)
            /\ minWritten' = IF minWritten = 0 THEN Shrunk(tasks[t].bs)
                             ELSE Min(minWritten, Shrunk(tasks[t].bs))
            /\ tasks' = [tasks EXCEPT ![t].pc = "retry", ![t].bs = 0]
       ELSE /\ UNCHANGED <<batch_size, minWritten>>
            /\ tasks' = [tasks EXCEPT ![t].pc = "retry", ![t].bs = 0]
    /\ UNCHANGED <<maxFail, nItems, max_workers, exponential_backoff, counter, pos, mainPc,
                   pending, error, progress, started, finished, execResult,
                   shutResult, raised, dropped, startSize, startedAfterError>>

\* lines 72-73 with the retry wrapped in a try/except that swallows the error
\* and goes on with the next item
RetryItemSwallow(t, out) ==
    /\ t \in TaskIds
    /\ tasks[t].pc = "retry"
    /\ out # "ok" => MayFail
    /\ LET item == tasks[t].lo + Len(tasks[t].retried)
           last == Len(tasks[t].retried) + 1 = tasks[t].len
       IN  tasks' = [tasks EXCEPT
                        ![t].retried = Append(@, item),
                        ![t].itemErr = IF out = "ok" THEN @ ELSE out,
                        ![t].pc = IF last THEN "track" ELSE "retry"]
    /\ UNCHANGED <<maxFail, nItems, batch_size, max_workers, exponential_backoff, counter,
                   pos, mainPc, pending, error, progress, started, finished, execResult,
                   shutResult, raised, dropped, startSize, minWritten,
                   startedAfterError>>

\* lines 72-73 with the loop retrying the first item of the batch every time
RetryItemMut(t, out) ==
    /\ t \in TaskIds
    /\ tasks[t].pc = "retry"
    /\ out # "ok" => MayFail
    /\ LET item == tasks[t].lo
           last == Len(tasks[t].retried) + 1 = tasks[t].len
       IN  tasks' = [tasks EXCEPT
                        ![t].retried = Append(@, item),
                        ![t].itemErr = IF out = "ok" THEN "none" ELSE out,
                        ![t].pc = IF out # "ok" THEN "failed"
                                  ELSE IF last THEN "track" ELSE "retry"]
    /\ error' = IF out = "ok" THEN error ELSE Latch(out, "item", tasks[t].lo)
    /\ UNCHANGED <<maxFail, nItems, batch_size, max_workers, exponential_backoff, counter,
                   pos, mainPc, pending, progress, started, finished, execResult,
                   shutResult, raised, dropped, startSize, minWritten,
                   startedAfterError>>

\* lines 72-74 with line 74 in a finally clause: a retry that raises still
\* tracks the whole batch
RetryItemTracks(t, out) ==
    /\ t \in TaskIds
    /\ tasks[t].pc = "retry"
    /\ out # "ok" => MayFail
    /\ LET item == tasks[t].lo + Len(tasks[t].retried)
           last == Len(tasks[t].retried) + 1 = tasks[t].len
       IN  tasks' = [tasks EXCEPT
                        ![t].retried = Append(@, item),
                        ![t].itemErr = IF out = "ok" THEN "none" ELSE out,
                        ![t].tracked = IF out = "ok" THEN @ ELSE @ + 1,
                        ![t].pc = IF out # "ok" THEN "failed"
                                  ELSE IF last THEN "track" ELSE "retry"]
    /\ progress' = IF out = "ok" THEN progress ELSE Tracked(tasks[t].len)
    /\ error' = IF out = "ok" THEN error ELSE Latch(out, "item", tasks[t].lo)
    /\ UNCHANGED <<maxFail, nItems, batch_size, max_workers, exponential_backoff, counter,
                   pos, mainPc, pending, started, finished, execResult,
                   shutResult, raised, dropped, startSize, minWritten,
                   startedAfterError>>

\* lines 72-73: work_handler([item]) for the next item of the batch; whatever it
\* raises leaves the task
RetryItem(t, out) ==
    /\ t \in TaskIds
    /\ tasks[t].pc = "retry"
    /\ out # "ok" => MayFail
    /\ LET item == tasks[t].lo + Len(tasks[t].retried)
           last == Len(tasks[t].retried) + 1 = tasks[t].len
       IN  tasks' = [tasks EXCEPT
                        ![t].retried = Append(@, item),
                        ![t].itemErr = IF out = "ok" THEN "none" ELSE out,
                        ![t].pc = IF out # "ok" THEN "failed"
                                  ELSE IF last THEN "track" ELSE "retry"]
    /\ error' = IF out = "ok" THEN error ELSE Latch(out, "item", tasks[t].lo)
    /\ UNCHANGED <<maxFail, nItems, batch_size, max_workers, exponential_backoff, counter,
                   pos, mainPc, pending, progress, started, finished, execResult,
                   shutResult, raised, dropped, startSize, minWritten,
                   startedAfterError>>

\* line 74 with track(1) for track(len(batch))
TrackMut(t) ==
    /\ t \in TaskIds
    /\ tasks[t].pc = "track"
    /\ progress' = Tracked(1)
    /\ tasks' = [tasks EXCEPT ![t].tracked = @ + 1, ![t].pc = "done"]
    /\ UNCHANGED <<maxFail, nItems, batch_size, max_workers, exponential_backoff, counter,
                   pos, mainPc, pending, error, started, finished, execResult,
                   shutResult, raised, dropped, startSize, minWritten,
                   startedAfterError>>

\* line 74: self.progress_logger.track(len(batch)); the task is done
Track(t) ==
    /\ t \in TaskIds
    /\ tasks[t].pc = "track"
    /\ progress' = Tracked(tasks[t].len)
    /\ tasks' = [tasks EXCEPT ![t].tracked = @ + 1, ![t].pc = "done"]
    /\ UNCHANGED <<maxFail, nItems, batch_size, max_workers, exponential_backoff, counter,
                   pos, mainPc, pending, error, started, finished, execResult,
                   shutResult, raised, dropped, startSize, minWritten,
                   startedAfterError>>

Next ==
    \/ ExecuteCall
    \/ ExecuteReturn
    \/ NextBatch
    \/ Acquire
    \/ ShutdownCall
    \/ ShutdownWait
    \/ \E t \in TaskIds : Start(t)
    \/ \E t \in TaskIds, out \in Outcomes : Handler(t, out)
    \/ \E t \in TaskIds : ReadSize(t)
    \/ \E t \in TaskIds : WriteSize(t)
    \/ \E t \in TaskIds, out \in Outcomes : RetryItem(t, out)
    \/ \E t \in TaskIds : Track(t)

Spec == Init /\ [][Next]_vars

SpecLong == InitLong /\ [][Next]_vars

\* the caller's thread: execute, then shutdown
MainStep ==
    \/ ExecuteCall
    \/ ExecuteReturn
    \/ NextBatch
    \/ Acquire
    \/ ShutdownCall
    \/ ShutdownWait

\* the worker thread that runs task t, with a handler that returns or raises
WorkerStep(t) ==
    \/ Start(t)
    \/ \E out \in Outcomes : Handler(t, out)
    \/ ReadSize(t)
    \/ WriteSize(t)
    \/ \E out \in Outcomes : RetryItem(t, out)
    \/ Track(t)

\* every thread that can take a step eventually takes one, and every handler
\* invocation eventually returns or raises
SpecFair ==
    /\ Init
    /\ [][Next]_vars
    /\ WF_vars(MainStep)
    /\ \A t \in 1..MaxItems : WF_vars(WorkerStep(t))

TypeOK ==
    /\ batch_size \in 0..startSize
    /\ pos \in 0..nItems
    /\ progress \in 0..nItems

\* ================================================================ claims
\* the items of task t's batch, in batch order
ItemsOf(t) == BatchItems(tasks[t])

\* the tasks whose batch holds item i
HoldersOf(i) == {t \in TaskIds : tasks[t].lo <= i /\ i < tasks[t].lo + tasks[t].len}

\* no handler invocation has raised
HandlerAlwaysSucceeded ==
    \A t \in TaskIds : tasks[t].outcome \in {"none", "ok"} /\ tasks[t].itemErr = "none"

\* some handler invocation raised an error that leaves its task
FatalRaised ==
    \E t \in TaskIds : tasks[t].outcome = "fatal" \/ tasks[t].itemErr # "none"

\* batches past submit's check of the stored error
Admitted == Len(tasks) + (IF pending.len > 0 THEN 1 ELSE 0)

\* C1: with a handler that always succeeds, once shutdown has returned every
\* item was passed to the handler exactly once, in one batch and never in a
\* singleton retry, and the progress reported is the number of items.
C1_AllItemsOnce ==
    (mainPc = "end" /\ HandlerAlwaysSucceeded) =>
        /\ shutResult = "returned"
        /\ \A i \in 1..nItems :
              /\ Cardinality(HoldersOf(i)) = 1
              /\ \A t \in HoldersOf(i) : tasks[t].calls = 1 /\ tasks[t].retried = <<>>
        /\ progress = nItems

C1_Witness ==
    /\ mainPc = "end"
    /\ HandlerAlwaysSucceeded
    /\ nItems = 5
    /\ startSize = 2
    /\ max_workers = 2
    /\ Len(tasks) = 3

\* C2 (as stated): the batches in flight, queued or running, never exceed
\* max_workers.
C2_InFlightAtMostWorkers == Cardinality(InFlight) <= max_workers

\* C2 (amended): the batches in flight never exceed max_workers + 1, the
\* workers plus the queue bound of 1 the pool is built with, and the batches
\* running never exceed max_workers.
C2_InFlightBound ==
    /\ Cardinality(InFlight) <= max_workers + 1
    /\ Cardinality(Running) <= max_workers

C2_Witness ==
    /\ max_workers = 2
    /\ Cardinality(Running) = 2
    /\ Cardinality(InFlight) = 3

\* C3 (as stated): once a processing unit has raised a fatal error no batch
\* begins processing, and shutdown raises the error.
C3_NoStartAfterError ==
    /\ ~startedAfterError
    /\ (mainPc = "end" /\ FatalRaised) => shutResult = "raised"

\* C3 (amended): once a processing unit has raised a fatal error no further
\* batch passes submit's check (the batches admitted before may still begin),
\* a submit made after it raises instead of scheduling, and shutdown raises
\* the error.
C3_NoAdmissionAfterError ==
    /\ [][FatalRaised => Admitted' <= Admitted]_vars
    /\ [][(FatalRaised /\ pos' > pos) => (execResult' = "raised" /\ tasks' = tasks)]_vars
    /\ []((mainPc = "end" /\ FatalRaised) =>
             (shutResult = "raised" /\ raised[Len(raised)].by = "shutdown"))

C3_Witness ==
    /\ mainPc = "end"
    /\ FatalRaised
    /\ startedAfterError
    /\ execResult = "raised"
    /\ shutResult = "raised"

\* C4: a task whose per-item retry raised has advanced progress by
\* len(batch) before the exception left it.
C4_TrackBeforeRaise ==
    \A t \in TaskIds :
        (tasks[t].pc = "failed" /\ tasks[t].itemErr # "none") => tasks[t].tracked = 1

\* C5 (as stated): after a transient failure of handler(batch) every item of
\* the batch is retried once, in batch order, also when an earlier retry raised.
C5_AllItemsRetried ==
    \A t \in TaskIds :
        (tasks[t].outcome = "transient" /\ tasks[t].pc \in {"track", "done", "failed"})
            => tasks[t].retried = ItemsOf(t)

\* C5 (amended): after a transient failure of handler(batch) the items are
\* retried once each in batch order up to and including the first whose retry
\* raises, all of them when none raises; no other batch is retried.
C5_RetriedPrefix ==
    \A t \in TaskIds :
        /\ Len(tasks[t].retried) <= tasks[t].len
        /\ \A k \in 1..Len(tasks[t].retried) : tasks[t].retried[k] = ItemsOf(t)[k]
        /\ tasks[t].outcome # "transient" => tasks[t].retried = <<>>
        /\ (tasks[t].outcome = "transient" /\ tasks[t].pc \in {"track", "done"})
              => (tasks[t].retried = ItemsOf(t) /\ tasks[t].itemErr = "none")
        /\ (tasks[t].outcome = "transient" /\ tasks[t].pc = "failed")
              => (tasks[t].retried # <<>> /\ tasks[t].itemErr # "none")
        /\ tasks[t].itemErr # "none" => tasks[t].pc = "failed"

C5_Witness ==
    \E t \in TaskIds :
        /\ tasks[t].outcome = "transient"
        /\ tasks[t].pc = "failed"
        /\ tasks[t].len = 3
        /\ tasks[t].retried = <<tasks[t].lo, tasks[t].lo + 1>>

\* C6: no step increases the shared batch size.
C6_NeverIncreases == [][batch_size' <= batch_size]_vars

\* C7: the shared batch size is at least 1 in every reachable state.
C7_AtLeastOne == batch_size >= 1

C7_Witness ==
    /\ startSize = 3
    /\ batch_size = 1
    /\ minWritten = 1
    /\ \E t \in TaskIds : tasks[t].outcome = "transient" /\ tasks[t].pc = "retry"

\* C8: a transient failure of a batch as long as the batch size S read, S > 1,
\* sets the batch size to floor(S/2) (exponential) or S-1 (linear), and every
\* batch formed after a write is no longer than the size written.
C8_ShrinkBoundsLaterBatches ==
    /\ [][\A t \in TaskIds :
            (tasks[t].pc = "write" /\ tasks'[t].pc = "retry"
               /\ tasks[t].bs = tasks[t].len /\ tasks[t].bs > 1)
            => batch_size' = (IF exponential_backoff THEN tasks[t].bs \div 2
                              ELSE tasks[t].bs - 1)]_vars
    /\ [][(pos' > pos /\ minWritten # 0) => pos' - pos <= minWritten]_vars

\* C9: a transient failure of a batch whose length differs from the batch
\* size read, or with the batch size read being 1, leaves the batch size as
\* it is.
C9_NoShrinkOtherwise ==
    [][\A t \in TaskIds :
          (tasks[t].pc = "write" /\ tasks'[t].pc = "retry"
             /\ (tasks[t].bs # tasks[t].len \/ tasks[t].bs = 1))
          => batch_size' = batch_size]_vars

C9_Witness ==
    /\ Failures = 1
    /\ batch_size = startSize
    /\ \E t \in TaskIds :
          /\ tasks[t].outcome = "transient"
          /\ tasks[t].pc = "retry"
          /\ tasks[t].len < batch_size
          /\ tasks[t].len > 1

\* C10 (as stated): no error of the recognized transient set is ever stored
\* as the terminal error or raised to the caller.
C10_NoTransientSurfaces ==
    /\ error.kind # "transient"
    /\ \A k \in 1..Len(raised) : raised[k].kind # "transient"

\* C10 (amended): a recognized transient error raised by handler(batch) is
\* handled in the worker: it is never stored or raised to the caller and does
\* not end its task; an error stored or raised comes from a handler(batch)
\* error outside the set or from a singleton retry (of any type).
C10_BatchTransientHandled ==
    /\ error.from = "batch" => error.kind = "fatal"
    /\ \A t \in TaskIds :
          (tasks[t].outcome = "transient" /\ tasks[t].pc = "failed")
              => tasks[t].itemErr # "none"
    /\ ~FatalRaised => (error = NoError /\ raised = <<>>)
    /\ \A k \in 1..Len(raised) : raised[k].kind = error.kind

C10_Witness ==
    /\ mainPc = "end"
    /\ shutResult = "returned"
    /\ raised = <<>>
    /\ \E t \in TaskIds : tasks[t].outcome = "transient" /\ tasks[t].pc = "done"

\* C11: the terminal error state is a permanent latch: a fatal error raised
\* by a processing unit is stored, the stored error is never cleared or
\* replaced, and a submit made once it is stored raises that error to the
\* caller of execute without scheduling its task.
C11_PermanentLatch ==
    /\ [](FatalRaised => error.kind # "none")
    /\ [][error.kind # "none" => error' = error]_vars
    /\ [][(error.kind # "none" /\ pos' > pos) =>
            /\ raised' = Append(raised, [by |-> "execute", kind |-> error.kind])
            /\ Admitted' = Admitted
            /\ Len(dropped') = Len(dropped) + 1
            /\ mainPc' = "executed"]_vars

C11_Witness ==
    /\ error.kind = "fatal"
    /\ error.from = "batch"
    /\ execResult = "raised"
    /\ Len(dropped) = 1
    /\ \E t \in TaskIds : tasks[t].outcome = "fatal" /\ tasks[t].lo # error.lo

\* C12 (as stated): a latched fatal error is raised to the caller exactly
\* once, and not again by shutdown when execute already raised it.
C12_RaisedOnce == Len(raised) <= 1

\* C12 (amended): a latched fatal error is raised to the caller by every
\* blocking call made after it is set: by the submit that ends execute, if
\* one is made, and by shutdown in every case, so twice when execute raised it.
C12_RaisedAtEveryCall ==
    /\ Len(raised) <= 2
    /\ execResult = "raised" <=> (raised # <<>> /\ raised[1].by = "execute")
    /\ shutResult = "raised" <=> (raised # <<>> /\ raised[Len(raised)].by = "shutdown")
    /\ (mainPc = "end" /\ FatalRaised) => shutResult = "raised"
    /\ (mainPc = "end" /\ execResult = "raised") =>
          (Len(raised) = 2 /\ raised[1].kind = raised[2].kind)
    /\ (mainPc = "end" /\ execResult = "returned") => Len(raised) <= 1

C12_Witness ==
    /\ mainPc = "end"
    /\ raised = <<[by |-> "execute", kind |-> "fatal"],
                  [by |-> "shutdown", kind |-> "fatal"]>>

\* C13: when shutdown has returned or raised, every batch submitted has
\* completed: none is queued or running, none is waiting to be queued, and a
\* batch ends only by returning (after track) or by its own handler's error,
\* also when an error was latched while it was in flight.
C13_AllCompletedAtShutdown ==
    /\ mainPc = "end" =>
          /\ pending = NoBatch
          /\ InFlight = {}
          /\ \A t \in TaskIds : tasks[t].pc \in {"done", "failed"}
    /\ \A t \in TaskIds :
          /\ tasks[t].pc = "failed" => (tasks[t].outcome = "fatal" \/ tasks[t].itemErr # "none")
          /\ tasks[t].pc = "done" => (tasks[t].tracked = 1 /\ tasks[t].itemErr = "none")

C13_Witness ==
    /\ mainPc = "end"
    /\ shutResult = "raised"
    /\ startedAfterError
    /\ \E t, u \in TaskIds :
          /\ u < t
          /\ tasks[u].pc = "failed"
          /\ tasks[t].pc = "done"
          /\ tasks[t].outcome = "transient"

\* C14: under fair scheduling a submit waiting for a slot is eventually
\* admitted, execute eventually returns or raises, and the shutdown that
\* follows eventually returns or raises.
C14_NeverStalls ==
    /\ (mainPc = "acquire") ~> (mainPc = "iter")
    /\ <>(execResult # "none")
    /\ <>(mainPc = "end" /\ shutResult # "none")

\* a third batch was admitted by a one-worker pool whose first task failed:
\* its submit passed the check before the failure and got the slot it freed
C14_Witness ==
    /\ mainPc = "end"
    /\ max_workers = 1
    /\ Len(tasks) >= 3
    /\ tasks[1].pc = "failed"

\* C15: when handler(batch) raises an error outside retry_exceptions the task
\* ends there: that step changes neither the batch size nor the progress, the
\* task never reads the size, retries no item and tracks nothing, and the
\* error is latched; when the first batch is the only one and fails this way,
\* progress stays 0 and shutdown raises that error.
C15_FatalPropagates ==
    /\ [](\A t \in TaskIds : tasks[t].outcome = "fatal" =>
              /\ tasks[t].pc = "failed"
              /\ tasks[t].calls = 1
              /\ tasks[t].bs = 0
              /\ tasks[t].retried = <<>>
              /\ tasks[t].tracked = 0
              /\ error.kind # "none")
    /\ [][\A t \in TaskIds :
              (tasks[t].outcome = "none" /\ tasks'[t].outcome = "fatal") =>
                  /\ batch_size' = batch_size
                  /\ progress' = progress
                  /\ error' = Latch("fatal", "batch", tasks[t].lo)]_vars
    /\ []((Len(tasks) = 1 /\ tasks[1].outcome = "fatal") =>
              /\ progress = 0
              /\ error = [kind |-> "fatal", from |-> "batch", lo |-> 1]
              /\ mainPc = "end" =>
                    /\ shutResult = "raised"
                    /\ raised[Len(raised)] = [by |-> "shutdown", kind |-> "fatal"])

\* the first batch, of several items, failed fatally while the size was above
\* 1, and shutdown has ended
C15_Witness ==
    /\ mainPc = "end"
    /\ Len(tasks) = 1
    /\ tasks[1].outcome = "fatal"
    /\ tasks[1].len >= 2
    /\ batch_size = startSize
    /\ progress = 0

\* the batches handed to submit so far, in the order of the calls: the tasks
\* admitted, then the batch whose submit is waiting or was refused
Submitted ==
    [i \in 1..Len(tasks) |-> [lo |-> tasks[i].lo, len |-> tasks[i].len, sz |-> tasks[i].sz]]
        \o (IF pending.len > 0 THEN <<pending>> ELSE <<>>)
        \o dropped

\* C16: the batches handed to submit, in order, are consecutive non-empty
\* slices of the source that together make the prefix consumed; each is formed
\* with the batch size read at that moment, has that length unless the source
\* ran out, and a shorter batch is the last one; size 4 over 10 items with a
\* handler that never fails gives batches of 4, 4 and 2.
C16_BatchesInSourceOrder ==
    /\ [](\A i \in 1..Len(Submitted) :
              /\ Submitted[i].len >= 1
              /\ Submitted[i].len <= Submitted[i].sz
              /\ Submitted[i].lo = IF i = 1 THEN 1
                                   ELSE Submitted[i - 1].lo + Submitted[i - 1].len
              /\ i = Len(Submitted) => Submitted[i].lo + Submitted[i].len - 1 = pos
              /\ Submitted[i].len < Submitted[i].sz =>
                     (i = Len(Submitted) /\ pos = nItems))
    /\ [](Submitted = <<>> <=> pos = 0)
    /\ [][pos' # pos =>
              /\ Len(Submitted') = Len(Submitted) + 1
              /\ \A i \in 1..Len(Submitted) : Submitted'[i] = Submitted[i]
              /\ Submitted'[Len(Submitted')] =
                     [lo |-> pos + 1, len |-> Min(batch_size, nItems - pos),
                      sz |-> batch_size]]_vars
    /\ []((startSize = 4 /\ nItems = 10 /\ HandlerAlwaysSucceeded /\ pos = nItems) =>
              /\ Len(Submitted) = 3
              /\ Submitted[1].len = 4 /\ Submitted[2].len = 4 /\ Submitted[3].len = 2)

\* size 4 over 10 items, no failure: batches of 4, 4 and 2 were all processed
C16_Witness ==
    /\ startSize = 4 /\ nItems = 10
    /\ HandlerAlwaysSucceeded
    /\ mainPc = "end"
    /\ progress = 10
    /\ Len(tasks) = 3
    /\ tasks[3].len = 2 /\ tasks[3].sz = 4

\* the tasks whose handler(batch) raised one of retry_exceptions
TransientTasks == {t \in TaskIds : tasks[t].outcome = "transient"}

\* two or more batches failed transiently, every batch that did has length L
\* and was formed at size L, and each has run lines 64-70
SameLengthFailures(L) ==
    /\ Cardinality(TransientTasks) >= 2
    /\ \A t \in TransientTasks :
          /\ tasks[t].len = L
          /\ tasks[t].sz = L
          /\ tasks[t].pc \in {"retry", "track", "done", "failed"}

\* C17 as stated: after two or more batches of the same length L, formed at
\* size L, have all failed transiently, and no batch of another length has, the
\* batch size is one shrink step below L, for every L.
C17_OneStepBelow ==
    \A L \in 1..startSize : SameLengthFailures(L) => batch_size = Shrunk(L)

\* C17: after two or more batches of the same length L, formed at size L, have
\* all failed transiently, and no batch of another length has, the batch size
\* is one shrink step below L when L is above 1, and is still 1 when L is 1.
C17_OneStepBelowAboveOne ==
    \A L \in 1..startSize :
        SameLengthFailures(L) =>
            batch_size = IF L > 1 THEN Shrunk(L) ELSE 1

\* two workers are retrying the items of two batches of the same length, above
\* 1, that both failed transiently at the size they were formed with
C17_Witness ==
    \E t, u \in TaskIds :
        /\ t # u
        /\ tasks[t].pc = "retry" /\ tasks[u].pc = "retry"
        /\ tasks[t].len > 1
        /\ SameLengthFailures(tasks[t].len)
        /\ batch_size = Shrunk(tasks[t].len)

\* _fail_safe_execute returned for task t
Settled(t) == tasks[t].pc = "done"

\* the items of the batches among the first n tasks that settled
RECURSIVE SettledItems(_)
SettledItems(n) ==
    IF n = 0 THEN 0
    ELSE (IF Settled(n) THEN tasks[n].len ELSE 0) + SettledItems(n - 1)

\* the items for which handler(batch) or handler([item]) returned
ReturnedItems ==
    {i \in 1..nItems : \E t \in HoldersOf(i) :
        \/ tasks[t].outcome = "ok"
        \/ \E k \in 1..Len(tasks[t].retried) :
              /\ tasks[t].retried[k] = i
              /\ (k = Len(tasks[t].retried) => tasks[t].itemErr = "none")}

\* C18: the progress is the sum of len(batch) over the tasks that returned; a
\* task that returned either had handler(batch) return or had every item
\* retried with success, and tracked once; a task that raised tracked nothing;
\* the progress is at most the number of items some invocation returned for.
C18_NoOverCount ==
    /\ progress = SettledItems(Len(tasks))
    /\ \A t \in TaskIds :
          /\ tasks[t].tracked = (IF Settled(t) THEN 1 ELSE 0)
          /\ Settled(t) =>
                \/ tasks[t].outcome = "ok" /\ tasks[t].retried = <<>>
                \/ /\ tasks[t].outcome = "transient"
                   /\ tasks[t].retried = ItemsOf(t)
                   /\ tasks[t].itemErr = "none"
    /\ progress <= Cardinality(ReturnedItems)

\* a batch has settled and counts, while another batch of several items had a
\* retry raise after one of its items was processed, and counts nothing
C18_Witness ==
    /\ progress > 0
    /\ \E t, u \in TaskIds :
          /\ Settled(t)
          /\ tasks[u].pc = "failed"
          /\ Len(tasks[u].retried) >= 2
    /\ progress < Cardinality(ReturnedItems)

\* C19: when shutdown has ended, whether it returned or raised the stored
\* error, progress_logger.finish() has been called exactly once, after the
\* pool was drained and after every track call.
C19_FinishOnEveryShutdown ==
    mainPc = "end" =>
        /\ finished = 1
        /\ Drained
        /\ \A t \in TaskIds : tasks[t].pc # "track"

====
